---- MODULE Spec2Model ----
(***************************************************************************)
(* Rataitosk: the axis-scoring engine (core/engine.py), the embedding      *)
(* singleton (core/embedding.py), the chunker (core/chunking.py) and the   *)
(* four axis strategies (axes/*.py), as one sequential process.            *)
(*                                                                         *)
(* Similarities are integers in hundredths (-100..100 stands for -1..1);   *)
(* scores are integers in hundredths of a score point, so round(x, 2) is   *)
(* the rounding of an exact quotient to an integer.  Wall-clock time is an *)
(* integer number of ticks.                                                *)
(***************************************************************************)
EXTENDS Integers, Sequences, FiniteSets, TLC

\* ------------------------------------------------------------------ bounds
MaxCalls == 2
MaxClock == 1

\* ------------------------------------------------------- config/settings.py
CHUNK_SIZE == 4
MIN_CHUNK_LENGTH == 100

\* A key a dict does not hold (for the keys that hold strings).
Absent == "<absent>"

\* --------------------------------------------------------- core/chunking.py
\* A sentence as sent_tokenize returns it: `lead` and `trail` whitespace
\* characters around `body` characters that start and end with a
\* non-whitespace one.  body = 0 is a whitespace-only (or empty) sentence.
Sentence(l, b, t) == [lead |-> l, body |-> b, trail |-> t]

\* bool(s.strip())
IsNonEmpty(s) == s.body > 0

\* [s for s in current_sentences if s.strip()]
RECURSIVE FilterNonEmpty(_)
FilterNonEmpty(ss) ==
    IF ss = <<>> THEN <<>>
    ELSE IF IsNonEmpty(Head(ss)) THEN <<Head(ss)>> \o FilterNonEmpty(Tail(ss))
         ELSE FilterNonEmpty(Tail(ss))

RECURSIVE RawLength(_)
RawLength(ss) ==
    IF ss = <<>> THEN 0
    ELSE Head(ss).lead + Head(ss).body + Head(ss).trail + RawLength(Tail(ss))

\* len(" ".join(ss).strip()) for a non-empty list of non-empty sentences: one
\* space between neighbours, the first one's leading and the last one's
\* trailing whitespace stripped.
JoinedLength(ss) ==
    RawLength(ss) + (Len(ss) - 1) - ss[1].lead - ss[Len(ss)].trail

\* " ".join(non_empty_sentences).strip(): the chunk string, kept as the
\* sentences it is made of (outer whitespace removed) and its length.
JoinStrip(ss) ==
    LET n == Len(ss)
        inner == [i \in 1..n |->
                    Sentence(IF i = 1 THEN 0 ELSE ss[i].lead, ss[i].body,
                             IF i = n THEN 0 ELSE ss[i].trail)]
    IN [sents |-> inner, length |-> JoinedLength(ss)]

Min(a, b) == IF a < b THEN a ELSE b

\* A slip: the window runs one sentence into the next one.
Window_Sliding(sentences, i, chunk_size) ==
    SubSeq(sentences, i + 1, Min(i + chunk_size + 1, Len(sentences)))

\* sentences[i:i + chunk_size], i counted from 0
Window(sentences, i, chunk_size) ==
    SubSeq(sentences, i + 1, Min(i + chunk_size, Len(sentences)))

\* A slip: no length test, every non-blank window is kept.
KeepChunk_Any(chunk) == TRUE

\* The length test of chunk_text.
KeepChunk(chunk) == chunk.length >= MIN_CHUNK_LENGTH

\* One iteration of the loop of chunk_text: what window i appends.
WindowChunks(sentences, i, chunk_size) ==
    LET non_empty_sentences == FilterNonEmpty(Window(sentences, i, chunk_size))
    IN IF non_empty_sentences = <<>> THEN <<>>
       ELSE IF KeepChunk(JoinStrip(non_empty_sentences))
            THEN <<JoinStrip(non_empty_sentences)>>
            ELSE <<>>

RECURSIVE ChunkFrom(_, _, _)
ChunkFrom(sentences, i, chunk_size) ==
    IF i >= Len(sentences) THEN <<>>
    ELSE WindowChunks(sentences, i, chunk_size)
         \o ChunkFrom(sentences, i + chunk_size, chunk_size)

\* chunk_text(text, chunk_size): text given as its sentence list.
chunk_text(sentences, chunk_size) == ChunkFrom(sentences, 0, chunk_size)

\* The PDFs of the model.  extract_text_from_pdf either raises (no such
\* file, not a PDF) or yields a text, given here already split in sentences.
Paths == {"missing.pdf", "blank.pdf", "short.pdf", "a.pdf", "b.pdf"}

ExtractRaises(path) == path = "missing.pdf"

SentencesOf(path) ==
    CASE path = "blank.pdf" -> <<>>
      [] path = "short.pdf" -> <<Sentence(0, 40, 0), Sentence(1, 0, 0)>>
      [] path = "a.pdf" -> <<Sentence(0, 30, 0), Sentence(0, 30, 0),
                             Sentence(2, 0, 0), Sentence(0, 40, 1),
                             Sentence(0, 120, 0), Sentence(0, 10, 0),
                             Sentence(0, 0, 0), Sentence(0, 20, 0),
                             Sentence(0, 50, 0)>>
      [] path = "b.pdf" -> <<Sentence(1, 99, 0), Sentence(0, 1, 0)>>
      [] OTHER -> <<>>

\* chunk_pdf(path) once extraction has succeeded.
chunk_pdf(path) == chunk_text(SentencesOf(path), CHUNK_SIZE)

\* os.path.basename(path).replace('.pdf', '')
DocName(path) ==
    CASE path = "missing.pdf" -> "missing"
      [] path = "blank.pdf" -> "blank"
      [] path = "short.pdf" -> "short"
      [] path = "a.pdf" -> "a"
      [] path = "b.pdf" -> "b"
      [] OTHER -> path

\* -------------------------------------------------------- core/embedding.py
\* _model_instance: None, or a SentenceTransformer object.  `id` tells the
\* objects apart; `evaled` says whether .eval() completed on it.
NoInstance == [id |-> 0, evaled |-> FALSE]

\* What the environment does to a load: nothing, or an exception raised by
\* SentenceTransformer(...) or by .eval(), whose message does or does not
\* contain "connection".
LoadOutcomes ==
    {[stage |-> "ok", connection |-> FALSE]}
    \cup [stage : {"construct", "eval"}, connection : BOOLEAN]

\* A slip: no guard, every call loads.
NeedsLoad_Always(inst) == TRUE

\* if _model_instance is None
NeedsLoad(inst) == inst = NoInstance

\* raise ConnectionError(...) if "connection" in str(e).lower() else
\* raise RuntimeError(...)
LoadError(env) ==
    IF env.connection
    THEN [type |-> "ConnectionError",
          message |-> "Failed to download model. Check internet connection."]
    ELSE [type |-> "RuntimeError",
          message |-> "Failed to load embedding model"]

\* _model_instance after the try block of get_model: the assignment happens
\* as soon as the constructor returns, before .eval() runs.
InstanceAfterLoad(inst, env, fresh) ==
    CASE env.stage = "construct" -> inst
      [] env.stage = "eval" -> [id |-> fresh, evaled |-> FALSE]
      [] OTHER -> [id |-> fresh, evaled |-> TRUE]

\* get_model(): the outcome of one call made with _model_instance = inst.
\* `fresh` is the identity of the object a constructor call would create.
get_model(inst, env, fresh) ==
    IF NeedsLoad(inst)
    THEN [instance |-> InstanceAfterLoad(inst, env, fresh),
          attempted |-> TRUE,
          constructed |-> env.stage # "construct",
          raised |-> env.stage # "ok",
          exc |-> LoadError(env)]
    ELSE [instance |-> inst,
          attempted |-> FALSE,
          constructed |-> FALSE,
          raised |-> FALSE,
          exc |-> LoadError(env)]

\* ------------------------------------------------- model.encode and sklearn
\* model.encode is deterministic: a text has one vector.  Only the angles
\* between vectors matter to cosine_similarity, so a vector is kept as a
\* direction in a plane, in steps of 30 degrees (0..11): a chunk's direction
\* follows from its text (here its length), an anchor's is a fixed one.
EncodeChunk(chunk) == chunk.length % 12

\* np.asarray(model.encode(doc_chunks, ...)): one vector per text, in order.
Encode(chunks) == [i \in 1..Len(chunks) |-> EncodeChunk(chunks[i])]

\* The anchors' vectors are what the pretrained model makes of the anchor
\* texts; the code fixes nothing about the angles between them.
EncodeAnchor(anchor) ==
    CASE anchor = "OPERATIONAL_GROUNDING_ANCHOR" -> 0
      [] anchor = "TRANSFORMATIONAL_VISION_ANCHOR" -> 3
      [] anchor = "PRESENT_ANCHOR" -> 1
      [] anchor = "FUTURE_ANCHOR" -> 5
      [] OTHER -> 0

\* cos(30 degrees * k) for k = 0..11, in hundredths.
CosTable == <<100, 87, 50, 0, -50, -87, -100, -87, -50, 0, 50, 87>>

\* cosine_similarity of two vectors, in hundredths: the cosine of the angle
\* between them.
Cosine(u, v) == CosTable[((u - v) % 12) + 1]

RECURSIVE SumSeq(_)
SumSeq(s) == IF s = <<>> THEN 0 ELSE Head(s) + SumSeq(Tail(s))

\* sum of cosine_similarity(emb, anchor_2d): emb against one anchor vector
SumToAnchor(emb, anchor_vector) ==
    SumSeq([i \in 1..Len(emb) |-> Cosine(emb[i], anchor_vector)])

\* A slip: the quotient cut off (floor division) instead of rounded.
RoundDiv_Floor(num, den) == num \div den

\* round(num / den, 0) for den > 0 as Python and NumPy round: half to even.
RoundDiv(num, den) ==
    LET q == num \div den
        r == num % den
    IN IF 2 * r < den THEN q
       ELSE IF 2 * r > den THEN q + 1
       ELSE IF q % 2 = 0 THEN q ELSE q + 1

\* round((sim1 - sim2) * 100, 2) with sim_k = sum_k / (100 * n_k), in
\* hundredths of a score point.
RelativeScore(sum1, n1, sum2, n2) ==
    RoundDiv(100 * (sum1 * n2 - sum2 * n1), n1 * n2)

\* ------------------------------------------------------------ axes/*.py
Strategies == {"operational_grounding", "transformational_vision",
               "temporal_positioning", "thematic_similarity"}

AxisTitle(module) ==
    CASE module = "operational_grounding" -> "Operational Grounding"
      [] module = "transformational_vision" -> "Transformational Vision"
      [] module = "temporal_positioning" -> "Temporal Positioning"
      [] module = "thematic_similarity" -> "Thematic Similarity"
      [] OTHER -> module

MethodTag(module) ==
    CASE module = "operational_grounding" -> "single_anchor_comparative"
      [] module = "transformational_vision" -> "single_anchor_comparative"
      [] module = "temporal_positioning" -> "differential_two_anchor"
      [] module = "thematic_similarity" -> "cosine_similarity"
      [] OTHER -> Absent

\* An optional value: <<>> is None (or a key the dict does not hold),
\* <<v>> is the value v.
NoValue == <<>>
Some(v) == <<v>>

\* A result dict.  Every strategy and the engine write a subset of these
\* keys; a key not written is Absent (strings) or NoValue.
Entry(axis, score, doc1, doc2, error) ==
    [axis |-> axis, id |-> Absent, axis_name |-> Absent, score |-> score,
     doc1 |-> doc1, doc2 |-> doc2, error |-> error, method |-> Absent,
     chunks1 |-> NoValue, chunks2 |-> NoValue,
     top_chunks |-> NoValue, bottom_chunks |-> NoValue]

\* A slip: `and` for `or`, so one empty list passes the check.
EmptyInput_Both(doc1_chunks, doc2_chunks) ==
    doc1_chunks = <<>> /\ doc2_chunks = <<>>

\* if not doc1_chunks or not doc2_chunks
EmptyInput(doc1_chunks, doc2_chunks) ==
    doc1_chunks = <<>> \/ doc2_chunks = <<>>

\* The dict every strategy returns for an empty chunk list.
NoChunksResult(module, name1, name2) ==
    Entry(AxisTitle(module), NoValue, name1, name2,
          "One or both documents have no chunks.")

\* operational_grounding.score / transformational_vision.score, from the
\* anchor on: (sim1 - sim2) * 100, rounded.
SingleAnchorScore(doc1_chunks, doc2_chunks, anchor) ==
    LET anchor_vector == EncodeAnchor(anchor)
        emb1 == Encode(doc1_chunks)
        emb2 == Encode(doc2_chunks)
    IN RelativeScore(SumToAnchor(emb1, anchor_vector), Len(emb1),
                     SumToAnchor(emb2, anchor_vector), Len(emb2))

\* temporal_positioning.score: emphasis = to_future - to_present for each
\* document, (doc1_emphasis - doc2_emphasis) * 100, rounded.
DifferentialScore(doc1_chunks, doc2_chunks) ==
    LET present_vec == EncodeAnchor("PRESENT_ANCHOR")
        future_vec == EncodeAnchor("FUTURE_ANCHOR")
        emb1 == Encode(doc1_chunks)
        emb2 == Encode(doc2_chunks)
        doc1_emphasis_sum ==
            SumToAnchor(emb1, future_vec) - SumToAnchor(emb1, present_vec)
        doc2_emphasis_sum ==
            SumToAnchor(emb2, future_vec) - SumToAnchor(emb2, present_vec)
    IN RelativeScore(doc1_emphasis_sum, Len(emb1),
                     doc2_emphasis_sum, Len(emb2))

\* thematic_similarity.score: the pairs list, row by row of sim_matrix.
Pairs(doc1_chunks, doc2_chunks) ==
    LET embeddings == Encode(doc1_chunks \o doc2_chunks)
        n1 == Len(doc1_chunks)
        n2 == Len(doc2_chunks)
    IN [k \in 1..(n1 * n2) |->
          LET i == ((k - 1) \div n2) + 1
              j == ((k - 1) % n2) + 1
          IN [chunk1 |-> doc1_chunks[i], chunk2 |-> doc2_chunks[j],
              score |-> Cosine(embeddings[i], embeddings[n1 + j])]]

\* pairs.sort(key=lambda x: x[2]): a stable sort, by insertion.
RECURSIVE InsertPair(_, _)
InsertPair(sorted, p) ==
    IF sorted = <<>> THEN <<p>>
    ELSE IF sorted[Len(sorted)].score <= p.score THEN Append(sorted, p)
         ELSE Append(InsertPair(SubSeq(sorted, 1, Len(sorted) - 1), p),
                     sorted[Len(sorted)])

RECURSIVE SortPairs(_)
SortPairs(pairs) ==
    IF pairs = <<>> THEN <<>>
    ELSE InsertPair(SortPairs(SubSeq(pairs, 1, Len(pairs) - 1)),
                    pairs[Len(pairs)])

\* The slices pairs[:10] and pairs[-10:].
SLICE == 10
FirstN(s, n) == SubSeq(s, 1, Min(n, Len(s)))

\* A slip: pairs[10:] for pairs[-10:], everything after the first n.
LastN_Rest(s, n) == SubSeq(s, Min(n, Len(s)) + 1, Len(s))

LastN(s, n) == SubSeq(s, Len(s) - Min(n, Len(s)) + 1, Len(s))

\* round(np.mean(sim_matrix) * 100, 2)
PairwiseScore(doc1_chunks, doc2_chunks) ==
    LET pairs == Pairs(doc1_chunks, doc2_chunks)
    IN RoundDiv(100 * SumSeq([k \in 1..Len(pairs) |-> pairs[k].score]),
                Len(pairs))

\* The number a strategy computes once the model and the vectors are there.
StrategyScore(module, doc1_chunks, doc2_chunks) ==
    CASE module = "operational_grounding" ->
           SingleAnchorScore(doc1_chunks, doc2_chunks,
                             "OPERATIONAL_GROUNDING_ANCHOR")
      [] module = "transformational_vision" ->
           SingleAnchorScore(doc1_chunks, doc2_chunks,
                             "TRANSFORMATIONAL_VISION_ANCHOR")
      [] module = "temporal_positioning" ->
           DifferentialScore(doc1_chunks, doc2_chunks)
      [] OTHER -> PairwiseScore(doc1_chunks, doc2_chunks)

\* The dict a strategy returns on success.
ScoredResult(module, doc1_chunks, doc2_chunks, name1, name2) ==
    LET sorted == SortPairs(Pairs(doc1_chunks, doc2_chunks))
        pairwise == module = "thematic_similarity"
    IN [Entry(AxisTitle(module),
              Some(StrategyScore(module, doc1_chunks, doc2_chunks)),
              name1, name2, Absent)
        EXCEPT !.method = MethodTag(module),
               !.chunks1 = Some(Len(doc1_chunks)),
               !.chunks2 = Some(Len(doc2_chunks)),
               !.top_chunks = IF pairwise THEN Some(LastN(sorted, SLICE))
                              ELSE NoValue,
               !.bottom_chunks = IF pairwise THEN Some(FirstN(sorted, SLICE))
                                 ELSE NoValue]

\* What can go wrong inside one strategy call, as the environment decides:
\* nothing, the import of the module, the model's constructor or its
\* .eval(), or model.encode.
Faults ==
    [stage : {"none", "import", "encode", "eval"}, connection : {FALSE}]
    \cup [stage : {"construct"}, connection : BOOLEAN]

NoFault == [stage |-> "none", connection |-> FALSE]

\* The load outcome a fault stands for.
LoadEnv(fault) ==
    IF fault.stage \in {"construct", "eval"} THEN fault
    ELSE [stage |-> "ok", connection |-> FALSE]

\* model.encode calls of a strategy that runs to its end.
EncodeCalls(module) ==
    CASE module = "temporal_positioning" -> 4
      [] module = "thematic_similarity" -> 1
      [] OTHER -> 3

Raise(type, message) == [type |-> type, message |-> message]
NoExc == Raise(Absent, Absent)

\* module.score(doc1_chunks, doc2_chunks, name1=..., name2=...) of one of the
\* four strategies, called with _model_instance = inst: what it returns or
\* raises, _model_instance afterwards, and the calls it made.
score(module, doc1_chunks, doc2_chunks, name1, name2, inst, fault, fresh) ==
    LET gm == get_model(inst, LoadEnv(fault), fresh)
        base == [raised |-> FALSE, exc |-> NoExc,
                 result |-> NoChunksResult(module, name1, name2),
                 instance |-> inst, get_model_calls |-> 0,
                 attempted |-> FALSE, constructed |-> FALSE,
                 got |-> NoValue, encode_calls |-> 0]
        called == [base EXCEPT !.instance = gm.instance,
                               !.get_model_calls = 1,
                               !.attempted = gm.attempted,
                               !.constructed = gm.constructed]
    IN IF EmptyInput(doc1_chunks, doc2_chunks) THEN base
       ELSE IF gm.raised
            THEN [called EXCEPT !.raised = TRUE, !.exc = gm.exc]
       ELSE IF fault.stage = "encode"
            THEN [called EXCEPT !.raised = TRUE,
                                !.exc = Raise("RuntimeError", "encode failed"),
                                !.got = Some(gm.instance.id),
                                !.encode_calls = 1]
       ELSE IF doc1_chunks = <<>> \/ doc2_chunks = <<>>
            \* cosine_similarity refuses an array with no rows
            THEN [called EXCEPT !.raised = TRUE,
                                !.exc = Raise("ValueError",
                                              "Found array with 0 sample(s)"),
                                !.got = Some(gm.instance.id),
                                !.encode_calls = EncodeCalls(module)]
       ELSE [called EXCEPT !.result = ScoredResult(module, doc1_chunks,
                                                   doc2_chunks, name1, name2),
                           !.got = Some(gm.instance.id),
                           !.encode_calls = EncodeCalls(module)]

\* ------------------------------------------------ core/engine.py: registry
\* One item of the registry's JSON array: a JSON object with the keys it
\* holds (Absent for a key it lacks; enabled is "true" or "false"), or a
\* value that is no object (a number, a string, null: record = FALSE).
Rec(id, label, enabled) ==
    [record |-> TRUE, id |-> id, label |-> label, enabled |-> enabled]
NonRecord ==
    [record |-> FALSE, id |-> Absent, label |-> Absent, enabled |-> Absent]

OG == Rec("operational_grounding", "Operational Grounding", "true")
TV == Rec("transformational_vision", "Transformational Vision", "true")
TP == Rec("temporal_positioning", "Temporal Positioning", "true")
TS == Rec("thematic_similarity", "Thematic Similarity", "true")

\* axes/registry.json as compare_documents may find it.  kind: the file is
\* "missing", "unreadable" (open or read fails otherwise: a directory, no
\* permission, bytes that are not UTF-8), "invalid_json", or "json" whose
\* top level is a "list", an "object" (iterating it yields its keys) or a
\* "scalar", holding `items`.
File(kind, top, items) == [kind |-> kind, top |-> top, items |-> items]

RegistryFiles ==
    { File("missing", "list", <<>>),
      File("unreadable", "list", <<>>),
      File("invalid_json", "list", <<>>),
      File("json", "scalar", <<>>),
      File("json", "object", <<>>),
      File("json", "object", <<NonRecord>>),
      File("json", "list", <<>>),
      File("json", "list", <<OG, TV, TP, TS>>),
      File("json", "list", <<TS, [OG EXCEPT !.enabled = "false"], TP>>),
      File("json", "list", <<[TP EXCEPT !.enabled = Absent],
                             [OG EXCEPT !.enabled = "false"]>>),
      File("json", "list", <<Rec("missing_module", "Missing", "true"), OG>>),
      File("json", "list", <<TV, Rec("no_score", "No Score", "true"), TS>>),
      File("json", "list", <<OG, NonRecord>>),
      File("json", "list", <<[OG EXCEPT !.enabled = "false"],
                             [TV EXCEPT !.id = Absent]>>),
      File("json", "list", <<TP, [TS EXCEPT !.id = Absent]>>),
      File("json", "list", <<[OG EXCEPT !.label = Absent], TP>>) }

\* axis.get("enabled", False), as a truth value
Enabled(axis) == axis.enabled = "true"

\* A slip: the enabled flag is not looked at.
EnabledOnly_All(all_axes) == all_axes

\* [axis for axis in all_axes if axis.get("enabled", False)]
RECURSIVE EnabledOnly(_)
EnabledOnly(all_axes) ==
    IF all_axes = <<>> THEN <<>>
    ELSE IF Enabled(Head(all_axes))
         THEN <<Head(all_axes)>> \o EnabledOnly(Tail(all_axes))
         ELSE EnabledOnly(Tail(all_axes))

\* load_registry(): what it returns, or the exception it lets through.
load_registry(file) ==
    CASE file.kind = "missing" ->
           [raised |-> FALSE, exc |-> NoExc, axes |-> <<>>]
      [] file.kind = "invalid_json" ->
           [raised |-> FALSE, exc |-> NoExc, axes |-> <<>>]
      [] file.kind = "unreadable" ->
           [raised |-> TRUE, axes |-> <<>>,
            exc |-> Raise("OSError", "cannot read axes/registry.json")]
      [] file.top = "scalar" ->
           [raised |-> TRUE, axes |-> <<>>,
            exc |-> Raise("TypeError", "object is not iterable")]
      [] \E i \in 1..Len(file.items) : ~file.items[i].record ->
           [raised |-> TRUE, axes |-> <<>>,
            exc |-> Raise("AttributeError", "object has no attribute 'get'")]
      [] OTHER ->
           [raised |-> FALSE, exc |-> NoExc, axes |-> EnabledOnly(file.items)]

\* importlib.import_module(f"axes.{axis_id}") followed by module.score: the
\* four strategies are there, "no_score" is a module without a score
\* function, any other name is no module.
Resolve(axis_id, fault) ==
    IF axis_id \in Strategies /\ fault.stage # "import" THEN NoExc
    ELSE IF axis_id = "no_score" /\ fault.stage # "import"
         THEN Raise("AttributeError", "module has no attribute 'score'")
    ELSE Raise("ImportError", "No module named axes.<axis_id>")

\* ------------------------------------------ core/engine.py: result entries
\* The synthetic entry of the two chunking short-circuits.
AllEntry(doc1_name, doc2_name, error) ==
    Entry("ALL", NoValue, doc1_name, doc2_name, error)

\* The synthetic entry of an empty registry.
NoneEntry(doc1_name, doc2_name) ==
    Entry("NONE", NoValue, doc1_name, doc2_name,
          "No axes enabled in registry.json")

\* A slip: the failed axis is given the score 0 instead of None.
AxisErrorEntry_ZeroScore(axis, doc1_name, doc2_name, e) ==
    [Entry(axis.label, Some(0), doc1_name, doc2_name, e.message)
     EXCEPT !.id = axis.id]

\* The entry the except branch of the loop appends; str(e) is the message.
AxisErrorEntry(axis, doc1_name, doc2_name, e) ==
    [Entry(axis.label, NoValue, doc1_name, doc2_name, e.message)
     EXCEPT !.id = axis.id]

\* result["id"] = axis_id; result["axis_name"] = axis["label"]
Tagged(result, axis) ==
    [result EXCEPT !.id = axis.id, !.axis_name = axis.label]

\* A slip: `and` for `or`, so one document without chunks goes through.
NoValidChunks_Both(chunks1, chunks2) == chunks1 = <<>> /\ chunks2 = <<>>

\* if not chunks1 or not chunks2
NoValidChunks(chunks1, chunks2) == chunks1 = <<>> \/ chunks2 = <<>>

\* A slip: the empty registry is not checked for.
NoAxes_Unchecked(axes) == FALSE

\* if not axes
NoAxes(axes) == axes = <<>>

\* get_hardware_info(): the dict of the try branch or that of the except
\* branch; it never raises.
HardwareInfos ==
    { [platform |-> "detected", error |-> Absent],
      [platform |-> "unknown", error |-> "hardware detection failed"] }

\* ------------------------------------------------------------------ state
VARIABLES
    pc,                 \* where the process is: "idle", inside
                        \* compare_documents ("registry", "loop"), or after a
                        \* top-level call ended ("returned", "raised")
    clock,              \* time.time()
    calls,              \* top-level calls made so far
    model_instance,     \* core.embedding._model_instance
    constructions,      \* SentenceTransformer(...) calls that returned
    returned_instances, \* ids of the objects get_model has returned
    registry_file,      \* axes/registry.json
    host,               \* what get_hardware_info() returns on this machine
    frame,              \* the locals of compare_documents
    result_structure,   \* compare_documents' result_structure
    raised,             \* the exception a top-level call let through
    call,               \* a direct get_model() or score() call and its outcome
    probe               \* what the current top-level call has done so far

vars == <<pc, clock, calls, model_instance, constructions, returned_instances,
          registry_file, host, frame, result_structure, raised, call, probe>>

Ended == {"returned", "raised"}

NoFrame ==
    [doc1_path |-> Absent, doc2_path |-> Absent, doc1_name |-> Absent,
     doc2_name |-> Absent, start_time |-> 0, chunks1 |-> <<>>,
     chunks2 |-> <<>>, axes |-> <<>>, idx |-> 0]

NoResult ==
    [axis_results |-> <<>>,
     metadata |-> [hardware |-> [platform |-> Absent, error |-> Absent],
                   processing_time_seconds |-> 0, timestamp |-> 0],
     document_info |-> [doc1_path |-> Absent, doc2_path |-> Absent,
                        doc1_name |-> Absent, doc2_name |-> Absent,
                        chunks1_count |-> NoValue, chunks2_count |-> NoValue]]

NoCall ==
    [fn |-> "none", module |-> Absent, doc1_chunks |-> <<>>,
     doc2_chunks |-> <<>>, raised |-> FALSE, exc |-> NoExc, value |-> NoValue]

\* The record of a top-level call that has just begun.
Probe(op) ==
    [op |-> op, registry_reads |-> 0, get_model_calls |-> 0,
     load_attempts |-> 0, encode_calls |-> 0, time_writes |-> 0,
     model_before |-> model_instance, faults |-> <<>>]

Init ==
    /\ pc = "idle"
    /\ clock = 0
    /\ calls = 0
    /\ model_instance = NoInstance
    /\ constructions = 0
    /\ returned_instances = {}
    /\ registry_file \in RegistryFiles
    /\ host \in HardwareInfos
    /\ frame = NoFrame
    /\ result_structure = NoResult
    /\ raised = NoExc
    /\ call = NoCall
    /\ probe = Probe("none")

\* Time passes while a step runs.
Elapse(d) == clock + d <= MaxClock /\ clock' = clock + d

\* A slip: the entry replaces the list instead of joining it.
WithEntry_Overwrite(rs, entry) ==
    [rs EXCEPT !.axis_results = <<entry>>]

\* result_structure["axis_results"].append(entry)
WithEntry(rs, entry) ==
    [rs EXCEPT !.axis_results = Append(@, entry)]

\* result_structure["metadata"]["processing_time_seconds"] = now - start_time
WithTime(rs, now, start_time) ==
    [rs EXCEPT !.metadata.processing_time_seconds = now - start_time]

\* ------------------------------------------------------- compare_documents
\* A slip: a short-circuit records its entry and the time but does not
\* return, so the run goes on to the step that follows.
ReturnEarly_FallThrough(next) == next

\* return result_structure, in a short-circuit: where the run is afterwards
\* (`next` is the step it returns before).
ReturnEarly(next) == "returned"

\* Lines 127-182: the result structure, chunking and its two short-circuits.
\* The caller names the two paths; the registry file and the host are as the
\* environment has them.
CompareStart(doc1_path, doc2_path, d) ==
    LET doc1_name == DocName(doc1_path)
        doc2_name == DocName(doc2_path)
        rs == [axis_results |-> <<>>,
               metadata |-> [hardware |-> host,
                             processing_time_seconds |-> 0,
                             timestamp |-> clock],
               document_info |-> [doc1_path |-> doc1_path,
                                  doc2_path |-> doc2_path,
                                  doc1_name |-> doc1_name,
                                  doc2_name |-> doc2_name,
                                  chunks1_count |-> NoValue,
                                  chunks2_count |-> NoValue]]
        failed == ExtractRaises(doc1_path) \/ ExtractRaises(doc2_path)
        chunks1 == IF failed THEN <<>> ELSE chunk_pdf(doc1_path)
        chunks2 == IF failed THEN <<>> ELSE chunk_pdf(doc2_path)
        fr == [doc1_path |-> doc1_path, doc2_path |-> doc2_path,
               doc1_name |-> doc1_name, doc2_name |-> doc2_name,
               start_time |-> clock, chunks1 |-> chunks1,
               chunks2 |-> chunks2, axes |-> <<>>, idx |-> 0]
    IN /\ pc = "idle"
       /\ calls < MaxCalls
       /\ Elapse(d)
       /\ calls' = calls + 1
       /\ frame' = fr
       /\ raised' = NoExc
       /\ call' = NoCall
       /\ IF failed
          THEN /\ result_structure' =
                    WithTime(WithEntry(rs, AllEntry(doc1_name, doc2_name,
                                 "Chunking failed: cannot open document")),
                             clock', clock)
               /\ probe' = [Probe("compare") EXCEPT !.time_writes = 1]
               /\ pc' = ReturnEarly("registry")
          ELSE IF NoValidChunks(chunks1, chunks2)
          THEN /\ result_structure' =
                    WithTime(WithEntry(rs, AllEntry(doc1_name, doc2_name,
                        "One or both documents produced no valid chunks")),
                             clock', clock)
               /\ probe' = [Probe("compare") EXCEPT !.time_writes = 1]
               /\ pc' = ReturnEarly("registry")
          ELSE /\ result_structure' =
                    [rs EXCEPT !.document_info.chunks1_count =
                                   Some(Len(chunks1)),
                               !.document_info.chunks2_count =
                                   Some(Len(chunks2))]
               /\ probe' = Probe("compare")
               /\ pc' = "registry"
       /\ UNCHANGED <<model_instance, constructions, returned_instances,
                      registry_file, host>>

\* Lines 184-197: axes = load_registry() and the empty-registry short-circuit.
LoadAxes(d) ==
    LET loaded == load_registry(registry_file)
    IN /\ pc = "registry"
       /\ Elapse(d)
       /\ probe' = [probe EXCEPT !.registry_reads = @ + 1,
                                 !.time_writes =
                                     IF ~loaded.raised /\ NoAxes(loaded.axes)
                                     THEN @ + 1 ELSE @]
       /\ IF loaded.raised
          THEN /\ raised' = loaded.exc
               /\ pc' = "raised"
               /\ UNCHANGED <<frame, result_structure>>
          ELSE IF NoAxes(loaded.axes)
          THEN /\ result_structure' =
                    WithTime(WithEntry(result_structure,
                                 NoneEntry(frame.doc1_name, frame.doc2_name)),
                             clock', frame.start_time)
               /\ pc' = ReturnEarly("loop")
               /\ UNCHANGED <<frame, raised>>
          ELSE /\ frame' = [frame EXCEPT !.axes = loaded.axes]
               /\ pc' = "loop"
               /\ UNCHANGED <<result_structure, raised>>
       /\ UNCHANGED <<calls, model_instance, constructions,
                      returned_instances, registry_file, host, call>>

\* The faults that can happen in a strategy call made now: the model is
\* only loaded while _model_instance is None.
Possible(fault) ==
    fault.stage \in {"construct", "eval"} => NeedsLoad(model_instance)

\* A slip: a failed axis ends the loop (break instead of falling through).
NextIndex_StopOnFailure(idx, failed) ==
    IF failed THEN idx + Cardinality(Strategies) ELSE idx + 1

\* The for loop moves on to the next axis, whatever the iteration did.
NextIndex(idx, failed) == idx + 1

\* Lines 200-219: one iteration of `for axis in axes`.
ScoreAxis(fault, d) ==
    LET axis == frame.axes[frame.idx + 1]
        resolved == Resolve(axis.id, fault)
        called == score(axis.id, frame.chunks1, frame.chunks2,
                        frame.doc1_name, frame.doc2_name, model_instance,
                        fault, constructions + 1)
    IN /\ pc = "loop"
       /\ frame.idx < Len(frame.axes)
       /\ Elapse(d)
       /\ UNCHANGED <<calls, registry_file, host, call>>
       /\ IF axis.id = Absent \/ axis.label = Absent
          THEN \* axis["id"], axis['label']: outside the try block
               /\ fault = NoFault
               /\ raised' = Raise("KeyError",
                                  IF axis.id = Absent THEN "'id'" ELSE "'label'")
               /\ pc' = "raised"
               /\ UNCHANGED <<model_instance, constructions,
                              returned_instances, frame, result_structure,
                              probe>>
          ELSE IF resolved # NoExc
          THEN /\ fault.stage \in {"none", "import"}
               /\ axis.id \notin Strategies => fault = NoFault
               /\ result_structure' =
                    WithEntry(result_structure,
                              AxisErrorEntry(axis, frame.doc1_name,
                                             frame.doc2_name, resolved))
               /\ frame' = [frame EXCEPT !.idx = NextIndex(@, TRUE)]
               /\ probe' = [probe EXCEPT !.faults = Append(@, fault.stage)]
               /\ UNCHANGED <<pc, raised, model_instance, constructions,
                              returned_instances>>
          ELSE /\ Possible(fault)
               /\ \E sc \in {called} :
                    /\ model_instance' = sc.instance
                    /\ constructions' =
                         IF sc.constructed THEN constructions + 1
                         ELSE constructions
                    /\ returned_instances' =
                         returned_instances
                             \cup {sc.got[i] : i \in 1..Len(sc.got)}
                    /\ result_structure' =
                         WithEntry(result_structure,
                                   IF sc.raised
                                   THEN AxisErrorEntry(axis, frame.doc1_name,
                                                       frame.doc2_name, sc.exc)
                                   ELSE Tagged(sc.result, axis))
                    /\ frame' = [frame EXCEPT !.idx = NextIndex(@, sc.raised)]
                    /\ probe' =
                         [probe EXCEPT
                            !.faults = Append(@, fault.stage),
                            !.get_model_calls = @ + sc.get_model_calls,
                            !.load_attempts =
                                IF sc.attempted THEN @ + 1 ELSE @,
                            !.encode_calls = @ + sc.encode_calls]
                    /\ UNCHANGED <<pc, raised>>

\* Lines 221-226: the loop is over.  round(..., 2) changes nothing on a
\* whole number of ticks.
Finish(d) ==
    /\ pc = "loop"
    /\ frame.idx >= Len(frame.axes)
    /\ Elapse(d)
    /\ result_structure' = WithTime(result_structure, clock', frame.start_time)
    /\ probe' = [probe EXCEPT !.time_writes = @ + 1]
    /\ pc' = "returned"
    /\ UNCHANGED <<calls, model_instance, constructions, returned_instances,
                   registry_file, host, frame, raised, call>>

\* ------------------------------------------------------- direct callers
\* validate_embedding(): model = embedding.get_model()
CallGetModel(env, d) ==
    LET gm == get_model(model_instance, env, constructions + 1)
    IN /\ pc = "idle"
       /\ calls < MaxCalls
       /\ env.stage # "ok" => NeedsLoad(model_instance)
       /\ Elapse(d)
       /\ calls' = calls + 1
       /\ model_instance' = gm.instance
       /\ constructions' =
            IF gm.constructed THEN constructions + 1 ELSE constructions
       /\ returned_instances' =
            IF gm.raised THEN returned_instances
            ELSE returned_instances \cup {gm.instance.id}
       /\ call' = [NoCall EXCEPT
                     !.fn = "get_model",
                     !.raised = gm.raised,
                     !.exc = IF gm.raised THEN gm.exc ELSE NoExc,
                     !.value = IF gm.raised THEN NoValue
                               ELSE Some(gm.instance)]
       /\ raised' = IF gm.raised THEN gm.exc ELSE NoExc
       /\ pc' = IF gm.raised THEN "raised" ELSE "returned"
       /\ probe' = [Probe("get_model") EXCEPT
                      !.get_model_calls = 1,
                      !.load_attempts = IF gm.attempted THEN 1 ELSE 0]
       /\ UNCHANGED <<registry_file, host, frame, result_structure>>

\* The chunk lists a strategy is called with directly.
ChunkLists == {<<>>, chunk_pdf("a.pdf"), chunk_pdf("b.pdf")}

\* The caller is done with what the call gave it (run_all goes on to its
\* next step; the report is not kept in the process).
Discard ==
    /\ pc \in Ended
    /\ pc' = "idle"
    /\ frame' = NoFrame
    /\ result_structure' = NoResult
    /\ raised' = NoExc
    /\ call' = NoCall
    /\ probe' = Probe("none")
    /\ UNCHANGED <<clock, calls, model_instance, constructions,
                   returned_instances, registry_file, host>>

\* A strategy's score() called on its own, with the default names.
CallScore(module, doc1_chunks, doc2_chunks, fault, d) ==
    /\ pc = "idle"
    /\ calls < MaxCalls
    /\ fault.stage # "import"
    /\ Possible(fault)
    /\ (doc1_chunks = <<>> \/ doc2_chunks = <<>>) => fault = NoFault
    /\ Elapse(d)
    /\ calls' = calls + 1
    /\ \E sc \in {score(module, doc1_chunks, doc2_chunks, "Document A",
                         "Document B", model_instance, fault,
                         constructions + 1)} :
          /\ model_instance' = sc.instance
          /\ constructions' =
               IF sc.constructed THEN constructions + 1 ELSE constructions
          /\ returned_instances' =
               returned_instances \cup {sc.got[i] : i \in 1..Len(sc.got)}
          /\ call' = [fn |-> "score", module |-> module,
                      doc1_chunks |-> doc1_chunks,
                      doc2_chunks |-> doc2_chunks,
                      raised |-> sc.raised, exc |-> sc.exc,
                      value |-> IF sc.raised THEN NoValue
                                ELSE Some(sc.result)]
          /\ raised' = sc.exc
          /\ pc' = IF sc.raised THEN "raised" ELSE "returned"
          /\ probe' = [Probe("score") EXCEPT
                         !.get_model_calls = sc.get_model_calls,
                         !.load_attempts = IF sc.attempted THEN 1 ELSE 0,
                         !.encode_calls = sc.encode_calls]
    /\ UNCHANGED <<registry_file, host, frame, result_structure>>

Ticks == 0..1

Next ==
    \/ \E doc1_path \in Paths, doc2_path \in Paths, d \in Ticks :
          CompareStart(doc1_path, doc2_path, d)
    \/ \E d \in Ticks : LoadAxes(d)
    \/ \E fault \in Faults, d \in Ticks : ScoreAxis(fault, d)
    \/ \E d \in Ticks : Finish(d)
    \/ \E env \in LoadOutcomes, d \in Ticks : CallGetModel(env, d)
    \/ \E module \in Strategies, doc1_chunks \in ChunkLists,
          doc2_chunks \in ChunkLists, fault \in Faults, d \in Ticks :
          CallScore(module, doc1_chunks, doc2_chunks, fault, d)
    \/ Discard

Spec == Init /\ [][Next]_vars

\* ============================================================= properties
Results == result_structure.axis_results

InCompare == probe.op = "compare"

\* An axis entry the loop can use: it has an id and a label.
WellFormed(axis) == axis.id # Absent /\ axis.label # Absent

\* C1: a report returned after the loop ran over n >= 1 enabled axes has
\* exactly n entries, the i-th one carrying the i-th axis's id, whether that
\* axis succeeded, did not resolve or raised; a report returned by a
\* short-circuit has exactly one synthetic entry; while the loop runs there is
\* one entry per axis already visited; and with every loaded axis well formed
\* the call does not end in an exception.
C1_OneEntryPerEnabledAxis ==
    InCompare =>
        /\ (pc = "returned" /\ frame.axes # <<>>) =>
               /\ Len(Results) = Len(frame.axes)
               /\ \A i \in 1..Len(frame.axes) :
                      Results[i].id = frame.axes[i].id
        /\ (pc = "returned" /\ frame.axes = <<>>) =>
               /\ Len(Results) = 1
               /\ Results[1].axis \in {"ALL", "NONE"}
        /\ pc = "loop" => Len(Results) = frame.idx
        /\ (pc = "raised" /\ frame.axes # <<>>) =>
               \E i \in 1..Len(frame.axes) : ~WellFormed(frame.axes[i])

\* A returned report over three axes: the first raised inside score, the
\* second did not resolve, the third succeeded.
C1_Witness ==
    /\ InCompare
    /\ pc = "returned"
    /\ Len(frame.axes) = 3
    /\ Len(Results) = 3
    /\ Results[1].id \in Strategies
    /\ Results[1].error # Absent
    /\ Results[2].id = "no_score"
    /\ Results[2].error # Absent
    /\ Results[3].score # NoValue

\* The entry axis i gets in the run over the same chunks and axes in which
\* no fault is injected: the strategy's result, or the error of an axis id
\* that names no strategy.
FaultFreeEntry(axis) ==
    IF Resolve(axis.id, NoFault) # NoExc
    THEN AxisErrorEntry(axis, frame.doc1_name, frame.doc2_name,
                        Resolve(axis.id, NoFault))
    ELSE Tagged(ScoredResult(axis.id, frame.chunks1, frame.chunks2,
                             frame.doc1_name, frame.doc2_name), axis)

\* The iterations of the current run into which a fault was injected.
Injected == {i \in 1..Len(probe.faults) : probe.faults[i] # "none"}

\* C2: per-axis isolation.  In a run in which exactly one axis was made to
\* fail (import error, constructor or eval failure of the model, exception
\* in encode), that axis has an error entry, every other axis's entry is the
\* one of the fault-free run, and the loop reaches the end of the axis list.
C2_PerAxisIsolation ==
    (InCompare /\ pc \in {"loop", "returned"} /\ Cardinality(Injected) = 1) =>
        /\ Len(Results) = Len(probe.faults)
        /\ \A i \in 1..Len(Results) :
               IF i \in Injected
               THEN Results[i].score = NoValue /\ Results[i].error # Absent
               ELSE Results[i] = FaultFreeEntry(frame.axes[i])
        /\ pc = "returned" => Len(Results) = Len(frame.axes)

\* A finished run over the four strategies whose first axis failed while the
\* model was being loaded and whose later axes scored.
C2_Witness ==
    /\ InCompare
    /\ pc = "returned"
    /\ Len(frame.axes) = 4
    /\ probe.faults = <<"eval", "none", "none", "none">>
    /\ Results[1].score = NoValue
    /\ \A i \in 2..4 : Results[i].score # NoValue

\* C3: compare_documents never raises: no call of it ends in an exception.
C3_NeverRaises == InCompare => pc # "raised"

\* The registry source is missing or malformed: no file, no JSON, or JSON
\* that is not a list of records.
MissingOrMalformed(file) ==
    \/ file.kind \in {"missing", "invalid_json"}
    \/ /\ file.kind = "json"
       /\ \/ file.top # "list"
          \/ \E i \in 1..Len(file.items) : ~file.items[i].record

\* C4: with a missing or malformed registry source, once the registry has
\* been read, load_registry has returned the empty list and the call has
\* returned the "NONE" report.
C4_SoftRegistryFailure ==
    (InCompare /\ probe.registry_reads > 0
     /\ MissingOrMalformed(registry_file)) =>
        /\ pc = "returned"
        /\ frame.axes = <<>>
        /\ Len(Results) = 1
        /\ Results[1].axis = "NONE"

\* A document yields no chunk: extraction raises, or chunking keeps none.
NoChunks(path) == ExtractRaises(path) \/ chunk_pdf(path) = <<>>

\* C5: when either document yields no chunk, the call has returned (it is
\* one step) a report with exactly one entry, axis "ALL", score null and a
\* non-empty error, whatever the registry file is, and without reading it.
C5_ZeroChunksShortCircuit ==
    (InCompare /\ (NoChunks(frame.doc1_path) \/ NoChunks(frame.doc2_path))) =>
        /\ pc = "returned"
        /\ Len(Results) = 1
        /\ Results[1].axis = "ALL"
        /\ Results[1].score = NoValue
        /\ Results[1].error \notin {Absent, ""}
        /\ probe.registry_reads = 0

\* The first document has chunks, the second has text but too little, and
\* the registry file could not even be read.
C5_Witness ==
    /\ InCompare
    /\ pc = "returned"
    /\ frame.doc1_path = "a.pdf"
    /\ frame.doc2_path = "short.pdf"
    /\ registry_file.kind = "unreadable"
    /\ Results[1].axis = "ALL"

\* The registry is a list of records none of which is enabled.
ZeroEnabled(file) ==
    /\ file.kind = "json"
    /\ file.top = "list"
    /\ \A i \in 1..Len(file.items) :
           file.items[i].record /\ file.items[i].enabled # "true"

\* C6: both documents have chunks and the registry has no enabled axis: once
\* the registry has been read the call has returned, without an exception, a
\* report with exactly one entry, axis "NONE", score null and an error.
C6_EmptyRegistryShortCircuit ==
    (InCompare /\ ~NoChunks(frame.doc1_path) /\ ~NoChunks(frame.doc2_path)
     /\ ZeroEnabled(registry_file) /\ pc # "registry") =>
        /\ pc = "returned"
        /\ raised = NoExc
        /\ Len(Results) = 1
        /\ Results[1].axis = "NONE"
        /\ Results[1].score = NoValue
        /\ Results[1].error \notin {Absent, ""}

\* A registry with two entries, none enabled, and two documents with chunks.
C6_Witness ==
    /\ InCompare
    /\ pc = "returned"
    /\ Len(registry_file.items) = 2
    /\ ZeroEnabled(registry_file)
    /\ frame.chunks1 # <<>>
    /\ frame.chunks2 # <<>>
    /\ Results[1].axis = "NONE"

\* The ways a call ends that the claim lists: the registry is missing, is no
\* JSON, or is a JSON list (of well or badly formed entries).
ListedPath(file) ==
    file.kind \in {"missing", "invalid_json"}
    \/ (file.kind = "json" /\ file.top = "list")

\* C7: on every listed path by which a call of compare_documents ends, the
\* elapsed time has been written to metadata.processing_time_seconds and the
\* hardware metadata is there.
C7_TimeAlwaysRecorded ==
    (InCompare /\ pc \in Ended /\ ListedPath(registry_file)) =>
        /\ probe.time_writes >= 1
        /\ result_structure.metadata.processing_time_seconds
               = clock - frame.start_time
        /\ result_structure.metadata.hardware.platform # Absent

\* C8: every entry of axis_results has either a score and no error, or an
\* error and no score.
C8_ScoreXorError ==
    \A i \in 1..Len(Results) :
        \/ Results[i].score # NoValue /\ Results[i].error = Absent
        \/ Results[i].score = NoValue /\ Results[i].error # Absent

\* A report holding a success and a per-axis failure side by side.
C8_Witness ==
    /\ InCompare
    /\ pc = "returned"
    /\ \E i, j \in 1..Len(Results) :
           /\ Results[i].score # NoValue
           /\ Results[j].score = NoValue
           /\ Results[j].id \in Strategies

\* C9: a strategy's score called with an empty doc1 or doc2 returns a result
\* with score null and an error, and has not called get_model, attempted a
\* load or called encode: the model singleton is as it was before the call.
C9_EmptyInputNoEmbedding ==
    (call.fn = "score"
     /\ (call.doc1_chunks = <<>> \/ call.doc2_chunks = <<>>)) =>
        /\ ~call.raised
        /\ call.value # NoValue
        /\ call.value[1].score = NoValue
        /\ call.value[1].error # Absent
        /\ probe.get_model_calls = 0
        /\ probe.load_attempts = 0
        /\ probe.encode_calls = 0
        /\ model_instance = probe.model_before

\* temporal_positioning.score called with an empty doc1 and a non-empty doc2
\* in a process that has not loaded the model.
C9_Witness ==
    /\ call.fn = "score"
    /\ call.module = "temporal_positioning"
    /\ call.doc1_chunks = <<>>
    /\ call.doc2_chunks # <<>>
    /\ probe.model_before = NoInstance
    /\ ~call.raised

\* C10: the model is constructed at most once in the process, only as long
\* as the singleton is None, and every get_model call that returns yields the
\* one object the singleton holds.
C10_LazySingleton ==
    /\ constructions <= 1
    /\ (constructions = 0) <=> (model_instance = NoInstance)
    /\ model_instance.id = constructions
    /\ returned_instances \subseteq {model_instance.id} \ {0}
    /\ (call.fn = "get_model" /\ ~call.raised) =>
           call.value = Some(model_instance)

\* A second top-level call that got the model without a load attempt, the
\* object having been constructed by the first.
C10_Witness ==
    /\ calls = 2
    /\ constructions = 1
    /\ probe.get_model_calls >= 1
    /\ probe.load_attempts = 0
    /\ probe.model_before # NoInstance
    /\ returned_instances = {1}

\* The loads that failed in this run, by the position of the axis.
LoadFailures ==
    {i \in 1..Len(probe.faults) : probe.faults[i] \in {"construct", "eval"}}

\* C11: model loading is not retried: in a comparison run in which a model
\* initialization has failed, that failed attempt is the only load attempt
\* of the run (no later axis of the run starts another one).
C11_NoLoadRetry ==
    (InCompare /\ LoadFailures # {}) => probe.load_attempts = 1

\* ===================================================== chunk_text on its own
\* chunk_text called with a text and a chunk_size of the caller's choice.
MaxSentences == 4
MaxChunkSize == 3

\* The sentences sent_tokenize may return: empty, whitespace only, and
\* sentences whose lengths sit around MIN_CHUNK_LENGTH when joined.
SentenceKinds ==
    { Sentence(0, 0, 0), Sentence(1, 0, 0), Sentence(0, 49, 0),
      Sentence(0, 50, 1), Sentence(1, 98, 0), Sentence(0, 100, 0) }

RECURSIVE SeqsUpTo(_, _)
SeqsUpTo(S, n) ==
    IF n = 0 THEN {<<>>}
    ELSE LET shorter == SeqsUpTo(S, n - 1)
         IN shorter \cup {Append(s, x) : s \in shorter, x \in S}

\* sent_tokenize(text) for the texts of the model.
Texts == SeqsUpTo(SentenceKinds, MaxSentences)

\* The values current_sentences takes in the loop of chunk_text, in order.
RECURSIVE WindowsFrom(_, _, _)
WindowsFrom(sentences, i, chunk_size) ==
    IF i >= Len(sentences) THEN <<>>
    ELSE <<Window(sentences, i, chunk_size)>>
         \o WindowsFrom(sentences, i + chunk_size, chunk_size)

\* The process outside any call: nothing loaded, nothing read, no report.
Quiet ==
    /\ clock = 0
    /\ calls = 0
    /\ model_instance = NoInstance
    /\ constructions = 0
    /\ returned_instances = {}
    /\ registry_file = File("missing", "list", <<>>)
    /\ host = [platform |-> "detected", error |-> Absent]
    /\ frame = NoFrame
    /\ result_structure = NoResult
    /\ raised = NoExc
    /\ probe = Probe("none")

ChunkInit ==
    /\ Quiet
    /\ pc = "idle"
    /\ \E sentences \in Texts, chunk_size \in 1..MaxChunkSize :
          call = [fn |-> "chunk_text", sentences |-> sentences,
                  chunk_size |-> chunk_size, windows |-> <<>>,
                  value |-> NoValue]

\* chunks = chunk_text(text, chunk_size)
ChunkTextCall ==
    /\ pc = "idle"
    /\ call.fn = "chunk_text"
    /\ call' = [call EXCEPT
                  !.windows = WindowsFrom(call.sentences, 0, call.chunk_size),
                  !.value = Some(chunk_text(call.sentences, call.chunk_size))]
    /\ pc' = "returned"
    /\ UNCHANGED <<clock, calls, model_instance, constructions,
                   returned_instances, registry_file, host, frame,
                   result_structure, raised, probe>>

ChunkNext == ChunkTextCall

SpecChunk == ChunkInit /\ [][ChunkNext]_vars

ChunkTextReturned == call.fn = "chunk_text" /\ pc = "returned"

\* Sentences k*chunk_size .. (k+1)*chunk_size - 1 of the text (counted from
\* 0), as far as the text goes.
Block(sentences, k, chunk_size) ==
    [j \in 1..Min(chunk_size, Len(sentences) - k * chunk_size) |->
        sentences[k * chunk_size + j]]

\* Number of blocks of chunk_size sentences a text of n sentences has.
Blocks(n, chunk_size) == (n + chunk_size - 1) \div chunk_size

\* C12: every chunk chunk_text returns is at least MIN_CHUNK_LENGTH
\* characters long, and it is the join of the non-blank sentences of one
\* window alone: a window that fails the length test leaves nothing to the
\* next one.
C12_MinLengthNoCarryOver ==
    ChunkTextReturned =>
        LET chunks == call.value[1]
        IN \A i \in 1..Len(chunks) :
              /\ chunks[i].length >= MIN_CHUNK_LENGTH
              /\ \E k \in 0..(Blocks(Len(call.sentences), call.chunk_size) - 1) :
                    LET kept == FilterNonEmpty(Block(call.sentences, k,
                                                     call.chunk_size))
                    IN kept # <<>> /\ chunks[i] = JoinStrip(kept)

\* A window too short on its own was dropped next to a window that was kept.
C12_Witness ==
    /\ ChunkTextReturned
    /\ Len(call.value[1]) = 1
    /\ Len(call.windows) = 2
    /\ \A k \in 1..2 : FilterNonEmpty(call.windows[k]) # <<>>
    /\ JoinStrip(FilterNonEmpty(call.windows[1])).length < MIN_CHUNK_LENGTH
    /\ call.value[1][1].length
         < JoinStrip(FilterNonEmpty(call.windows[1])).length
           + JoinStrip(FilterNonEmpty(call.windows[2])).length

\* What a block of sentences yields on its own: its non-blank sentences
\* joined, if there are any and the join is long enough.
BlockChunks(block) ==
    LET kept == FilterNonEmpty(block)
    IN IF kept # <<>> /\ JoinStrip(kept).length >= MIN_CHUNK_LENGTH
       THEN <<JoinStrip(kept)>>
       ELSE <<>>

RECURSIVE Flatten(_)
Flatten(seqs) ==
    IF seqs = <<>> THEN <<>> ELSE Head(seqs) \o Flatten(Tail(seqs))

\* C16: the windows of chunk_text partition the sentence sequence: window k
\* (from 0) is exactly sentences k*chunk_size .. (k+1)*chunk_size - 1, the
\* last one possibly shorter, so the windows in order make up the sentence
\* sequence with nothing repeated, left out or moved; and the returned
\* chunks are those of the windows, in the order of the windows.
C16_WindowsPartition ==
    ChunkTextReturned =>
        LET sentences == call.sentences
            chunk_size == call.chunk_size
            windows == call.windows
        IN /\ Len(windows) = Blocks(Len(sentences), chunk_size)
           /\ \A k \in 1..Len(windows) :
                 windows[k] = Block(sentences, k - 1, chunk_size)
           /\ \A k \in 1..(Len(windows) - 1) : Len(windows[k]) = chunk_size
           /\ Flatten(windows) = sentences
           /\ call.value[1] =
                 Flatten([k \in 1..Len(windows) |-> BlockChunks(windows[k])])

\* Two windows, the last one shorter than chunk_size, each giving a chunk.
C16_Witness ==
    /\ ChunkTextReturned
    /\ Len(call.windows) = 2
    /\ Len(call.windows[2]) < call.chunk_size
    /\ Len(call.value[1]) = 2
    /\ call.value[1][1] # call.value[1][2]

\* ================================================== score() on its own
\* A strategy's score() called with two chunk lists of the caller's choice:
\* up to MaxChunks1 chunks of document 1 and MaxChunks2 of document 2.
MaxChunks1 == 4
MaxChunks2 == 3

\* A chunk that is one sentence of the given length.
Chunk(length) == [sents |-> <<Sentence(0, length, 0)>>, length |-> length]

\* The chunks of the model: three texts whose vectors point 180, 270 and 0
\* degrees (Cosine 0, -100 and 0 between them); the first leans to
\* FUTURE_ANCHOR and away from PRESENT_ANCHOR, the last the other way.
ScoreChunks == {Chunk(102), Chunk(105), Chunk(108)}

\* The non-empty chunk lists of up to n chunks a caller passes.
ScoreLists(n) == SeqsUpTo(ScoreChunks, n) \ {<<>>}

ScoreInit ==
    /\ Quiet
    /\ pc = "idle"
    /\ \E doc1_chunks \in ScoreLists(MaxChunks1),
          doc2_chunks \in ScoreLists(MaxChunks2) :
          call = [NoCall EXCEPT !.doc1_chunks = doc1_chunks,
                                !.doc2_chunks = doc2_chunks]

ScoreNext ==
    \E module \in Strategies :
        CallScore(module, call.doc1_chunks, call.doc2_chunks, NoFault, 0)

SpecScore == ScoreInit /\ [][ScoreNext]_vars

\* A score() call has returned a result with a score.
Scored ==
    /\ call.fn = "score"
    /\ pc = "returned"
    /\ call.value # NoValue
    /\ call.value[1].score # NoValue

Directional ==
    {"operational_grounding", "transformational_vision",
     "temporal_positioning"}

\* C13: swapping document 1 and document 2 negates the score of each
\* directional axis and leaves the thematic_similarity score unchanged.
C13_SwapSymmetry ==
    Scored =>
        LET swapped == StrategyScore(call.module, call.doc2_chunks,
                                     call.doc1_chunks)
            s == call.value[1].score[1]
        IN IF call.module \in Directional
           THEN swapped = 0 - s
           ELSE swapped = s

\* A differential call on lists of different lengths whose score is negative
\* and not a whole number of points.
C13_Witness ==
    /\ Scored
    /\ Len(call.doc1_chunks) # Len(call.doc2_chunks)
    /\ call.module = "temporal_positioning"
    /\ call.value[1].score[1] % 100 # 0
    /\ call.value[1].score[1] < 0

\* C14: a document with at least one chunk compared with an identical copy
\* on thematic_similarity scores at or very near 100 (within one point).
C14_SelfSimilarity ==
    (/\ Scored
     /\ call.module = "thematic_similarity"
     /\ call.doc1_chunks = call.doc2_chunks)
    => call.value[1].score[1] >= 9900

\* C15: the score of every directional axis (single-anchor and differential
\* two-anchor) lies in -200..200, cosine similarities being in -1..1.
C15_DirectionalRange ==
    (Scored /\ call.module \in Directional)
    => /\ call.value[1].score[1] >= 0 - 20000
       /\ call.value[1].score[1] <= 20000

\* The pair of chunk i of document 1 and chunk j of document 2 with its
\* similarity.
CrossPair(i, j) ==
    [chunk1 |-> call.doc1_chunks[i], chunk2 |-> call.doc2_chunks[j],
     score |-> Cosine(EncodeChunk(call.doc1_chunks[i]),
                      EncodeChunk(call.doc2_chunks[j]))]

CrossIndex == (1..Len(call.doc1_chunks)) \X (1..Len(call.doc2_chunks))

\* How often the pair p is in the cross product, and in a list.
InCross(p) == Cardinality({ij \in CrossIndex : CrossPair(ij[1], ij[2]) = p})
InList(list, p) == Cardinality({k \in 1..Len(list) : list[k] = p})

Ascending(list) ==
    \A k \in 1..(Len(list) - 1) : list[k].score <= list[k + 1].score

\* C17: for non-empty chunk lists thematic_similarity.score returns in
\* bottom_chunks the 10 lowest-similarity and in top_chunks the 10
\* highest-similarity pairs of the full cross product (all pairs when there
\* are fewer than 10), each list sorted ascending by similarity.
C17_TopBottomPairs ==
    (Scored /\ call.module = "thematic_similarity") =>
        LET bottom == call.value[1].bottom_chunks[1]
            top == call.value[1].top_chunks[1]
            n == Min(10, Cardinality(CrossIndex))
            cross == {CrossPair(ij[1], ij[2]) : ij \in CrossIndex}
        IN /\ Len(bottom) = n /\ Len(top) = n
           /\ Ascending(bottom) /\ Ascending(top)
           /\ \A k \in 1..n : bottom[k] \in cross /\ top[k] \in cross
           /\ \A p \in cross :
                 /\ InList(bottom, p) <= InCross(p)
                 /\ InList(top, p) <= InCross(p)
                 /\ p.score < bottom[n].score => InList(bottom, p) = InCross(p)
                 /\ p.score > top[1].score => InList(top, p) = InCross(p)

\* More than 10 pairs with three different similarities: the two lists
\* differ and some pair is in neither.
C17_Witness ==
    /\ Scored
    /\ call.module = "thematic_similarity"
    /\ Cardinality(CrossIndex) > 10
    /\ call.value[1].bottom_chunks[1] # call.value[1].top_chunks[1]
    /\ call.value[1].bottom_chunks[1][1].score
         < call.value[1].bottom_chunks[1][10].score
    /\ call.value[1].bottom_chunks[1][10].score
         < call.value[1].top_chunks[1][10].score

\* The places of the registry file's entries whose enabled flag is true.
EnabledPlaces ==
    {i \in 1..Len(registry_file.items) :
        registry_file.items[i].enabled = "true"}

\* The k-th enabled entry in declared order.
KthEnabled(k) ==
    registry_file.items[
        CHOOSE i \in EnabledPlaces :
            Cardinality({j \in EnabledPlaces : j <= i}) = k]

\* The registry has been loaded in this run.
AxesLoaded ==
    /\ InCompare
    /\ probe.registry_reads = 1
    /\ pc \in {"loop", "returned"} \/ frame.axes # <<>>

\* C18: axes run one after the other in the registry's declared order
\* restricted to enabled entries: load_registry returns exactly the entries
\* whose enabled flag is true, in declared order, and when the i-th axis has
\* run the report holds i entries, the i-th being the result or error of the
\* i-th enabled axis, before the next axis is resolved or invoked.
C18_SequentialDeclaredOrder ==
    AxesLoaded =>
        /\ Len(frame.axes) = Cardinality(EnabledPlaces)
        /\ \A k \in 1..Len(frame.axes) : frame.axes[k] = KthEnabled(k)
        /\ frame.idx <= Len(frame.axes)
        /\ frame.axes # <<>> =>
              /\ Len(Results) = frame.idx
              /\ Len(probe.faults) = frame.idx
              /\ \A i \in 1..frame.idx :
                    /\ Results[i].id = KthEnabled(i).id
                    /\ IF Results[i].error = Absent
                       THEN Results[i].axis_name = KthEnabled(i).label
                       ELSE KthEnabled(i).label
                                \in {Results[i].axis, Results[i].axis_name}

\* A registry with a disabled entry between two enabled ones: the run
\* returned the first one's error and then the second one's score.
C18_Witness ==
    /\ InCompare
    /\ pc = "returned"
    /\ Len(registry_file.items) = 3
    /\ EnabledPlaces = {1, 3}
    /\ Len(Results) = 2
    /\ Results[1].id = "thematic_similarity"
    /\ Results[1].error # Absent
    /\ Results[2].id = "temporal_positioning"
    /\ Results[2].score # NoValue

\* C19: whenever get_model raises, _model_instance is left None, so that a
\* later get_model call initializes afresh and get_model never returns an
\* instance on which construction followed by eval() did not complete.
C19_RaiseLeavesUninitialized ==
    /\ (call.fn = "get_model" /\ call.raised) => model_instance = NoInstance
    /\ (call.fn = "get_model" /\ pc = "returned") => call.value[1].evaled

\* The run recorded a synthetic entry.
Synthetic(axis) == \E i \in 1..Len(Results) : Results[i].axis = axis

\* C20: a run of compare_documents that short-circuits with the "ALL" or
\* the "NONE" entry resolves and invokes no axis module and attempts no
\* model load, so _model_instance is after the run what it was before; in
\* the "ALL" case the registry is not read either.
C20_ShortCircuitFrame ==
    (InCompare /\ pc = "returned" /\ (Synthetic("ALL") \/ Synthetic("NONE")))
    => /\ probe.faults = <<>>
       /\ probe.get_model_calls = 0
       /\ probe.load_attempts = 0
       /\ probe.encode_calls = 0
       /\ model_instance = probe.model_before
       /\ Synthetic("ALL") => probe.registry_reads = 0
       /\ Synthetic("NONE") => probe.registry_reads = 1

\* An "ALL" run in a process whose model an earlier call has loaded.
C20_Witness ==
    /\ InCompare
    /\ pc = "returned"
    /\ Synthetic("ALL")
    /\ probe.model_before # NoInstance
    /\ model_instance = probe.model_before
    /\ probe.registry_reads = 0

====
